---- MODULE Spec2Model ----
(***************************************************************************)
(* Task-management backend: the User / Project / Task documents and the    *)
(* service methods of ProjectService, TaskService and UserService that     *)
(* read and write them.  Every action is one service call, taken as the    *)
(* code takes it from its first repository read to its return value; the   *)
(* value returned to the controller is kept in `last`.                     *)
(***************************************************************************)
EXTENDS Integers, Sequences, FiniteSets, TLC

\* ------------------------------------------------------------------ bounds
NumUsers == 3
NumProjects == 1
NumTasks == 2
MaxMembers == 2
MaxBulk == 2
NumSeedProjects == 2
MaxRegistered == 2
NumEmails == 3
NumPasswords == 2

\* --------------------------------------------------------------------- ids
\* Ids are opaque; an id above the range is a well-formed id naming nothing.
UserIds == 1..NumUsers
GhostUser == NumUsers + 1
ProjectIds == 1..NumProjects
TaskIds == 1..NumTasks

VARIABLES
  users,         \* User collection: id -> [email, role, isActive]
  projects,      \* Project collection: id -> document
  tasks,         \* Task collection: id -> document
  projectCount,  \* number of Project ids issued so far (ids are never reused)
  taskCount,     \* number of Task ids issued so far
  last,          \* the last service call and the ServiceResponse it returned
  inflight,      \* requests that have passed their checks and not yet written
  migrations     \* `migrations` collection: versions recorded as executed

vars == <<users, projects, tasks, projectCount, taskCount, last, inflight, migrations>>

\* ------------------------------------------------------------------ helpers
Range(s) == {s[i] : i \in 1..Len(s)}

\* Sequences over S of length at most n
SeqsUpTo(S, n) == UNION {[1..k -> S] : k \in 0..n}

\* An optional field of a request body: the given value, or the stored one
field(updateData, f, old) == IF f \in DOMAIN updateData THEN updateData[f] ELSE old

\* ServiceResponse: success <=> code = "OK"; data is the set of documents returned
\* (id: the project or task the call names; ids: the taskIds of a bulk call
\* or the members proposed to createProject)
Response(op, actor, id, target, code, data) ==
  [op |-> op, actor |-> actor, id |-> id, ids |-> <<>>, target |-> target,
   code |-> code, data |-> data]

BulkResponse(op, actor, ids, code) ==
  [op |-> op, actor |-> actor, id |-> 0, ids |-> ids, target |-> 0, code |-> code, data |-> {}]

\* -------------------------------------------------------------- Project.entity
isMember(project, userId) == \E i \in 1..Len(project.members) : project.members[i] = userId

isOwner(project, userId) == project.owner = userId

\* ------------------------------------------------------------ repositories
\* UserRepository.findAll({ _id: { $in: memberIds }, isActive: true })
findActiveUsersIn(memberIds) ==
  {u \in DOMAIN users : u \in Range(memberIds) /\ users[u].isActive}

\* ProjectRepository.userHasAccess
userHasAccess(projectId, userId) ==
  IF projectId \notin DOMAIN projects THEN FALSE
  ELSE isOwner(projects[projectId], userId) \/ isMember(projects[projectId], userId)

\* { $addToSet: { members: userId } }
addToSet(members, userId) == IF userId \in Range(members) THEN members ELSE Append(members, userId)

\* { $pull: { members: userId } }
pull(members, userId) == SelectSeq(members, LAMBDA m : m # userId)

\* findById(id, { populate: 'owner ...' }): a reference to a missing document populates to null
populatedOwnerIsNull(project) == project.owner \notin DOMAIN users

\* ---------------------------------------------------------------- Init
\* The database after UsersSeeder.run: one admin and the demo users, all active.
AdminId == 1

Init ==
  /\ users = [u \in UserIds |->
                [email |-> u, role |-> IF u = AdminId THEN "admin" ELSE "user", isActive |-> TRUE]]
  /\ projects = <<>>
  /\ tasks = <<>>
  /\ projectCount = 0
  /\ taskCount = 0
  /\ last = Response("init", 0, 0, 0, "OK", {})
  /\ inflight = <<>>
  /\ migrations = {}

\* ------------------------------------------------------------ UserService
\* An address is a positive number in its lower-case spelling; -e is another
\* spelling of address e that differs from it in case only.
\* userSchema.email { lowercase: true }: the setter Mongoose applies to the
\* value on documents, on updates and on query filters
lowercase(email) == IF email < 0 THEN -email ELSE email

\* UserRepository.emailExists(email, excludeUserId)
emailExists(email, excludeUserId) ==
  \E u \in DOMAIN users : users[u].email = lowercase(email) /\ u # excludeUserId

updateProfileCode(userId, updateData) ==
  IF "email" \in DOMAIN updateData /\ emailExists(updateData.email, userId) THEN "EMAIL_EXISTS"
  ELSE IF userId \notin DOMAIN users THEN "USER_NOT_FOUND"
  ELSE "OK"

updateProfile(userId, updateData) ==
  LET code == updateProfileCode(userId, updateData) IN
  /\ users' = IF code = "OK"
              THEN [users EXCEPT ![userId].email = lowercase(field(updateData, "email", @)),
                                 ![userId].isActive = field(updateData, "isActive", @)]
              ELSE users
  /\ last' = Response("updateProfile", userId, userId, field(updateData, "email", 0), code, {})
  /\ UNCHANGED <<projects, tasks, projectCount, taskCount, inflight, migrations>>

\* --------------------------------------------------------- ProjectService
createProjectCode(projectData) ==
  IF Len(projectData.members) > 0
     /\ Cardinality(findActiveUsersIn(projectData.members)) # Len(projectData.members)
  THEN "INVALID_MEMBERS"
  ELSE "OK"

createProject(projectData, ownerId) ==
  LET code == createProjectCode(projectData)
      newId == projectCount + 1
      newProject == [name |-> projectData.name,
                     description |-> projectData.description,
                     owner |-> ownerId,
                     members |-> projectData.members,
                     status |-> "active"]
  IN
  /\ projectCount < NumProjects
  /\ IF code = "OK"
     THEN /\ projects' = [p \in DOMAIN projects \cup {newId} |->
                            IF p = newId THEN newProject ELSE projects[p]]
          /\ projectCount' = newId
          /\ last' = [Response("createProject", ownerId, newId, 0, code, {newProject})
                        EXCEPT !.ids = projectData.members]
     ELSE /\ UNCHANGED <<projects, projectCount>>
          /\ last' = [Response("createProject", ownerId, 0, 0, code, {})
                        EXCEPT !.ids = projectData.members]
  /\ UNCHANGED <<users, tasks, taskCount, inflight, migrations>>

\* mutant: access decided on the members list alone
getProjectByIdCode_membersOnly(projectId, userId) ==
  IF projectId \notin DOMAIN projects THEN "PROJECT_NOT_FOUND"
  ELSE IF populatedOwnerIsNull(projects[projectId]) THEN "PROJECT_FETCH_ERROR"
  ELSE IF ~isMember(projects[projectId], userId) THEN "PROJECT_ACCESS_DENIED"
  ELSE "OK"

getProjectByIdCode(projectId, userId) ==
  IF projectId \notin DOMAIN projects THEN "PROJECT_NOT_FOUND"
  ELSE IF populatedOwnerIsNull(projects[projectId]) THEN "PROJECT_FETCH_ERROR"
  ELSE IF ~isOwner(projects[projectId], userId) /\ ~isMember(projects[projectId], userId)
       THEN "PROJECT_ACCESS_DENIED"
  ELSE "OK"

getProjectById(projectId, userId) ==
  LET code == getProjectByIdCode(projectId, userId) IN
  /\ last' = Response("getProjectById", userId, projectId, 0, code,
                      IF code = "OK" THEN {projects[projectId]} ELSE {})
  /\ UNCHANGED <<users, projects, tasks, projectCount, taskCount, inflight, migrations>>

\* mutant: any user with access may update
updateProjectCode_anyAccess(projectId, userId) ==
  IF projectId \notin DOMAIN projects THEN "PROJECT_NOT_FOUND"
  ELSE IF ~userHasAccess(projectId, userId) THEN "INSUFFICIENT_PERMISSIONS"
  ELSE "OK"

updateProjectCode(projectId, userId) ==
  IF projectId \notin DOMAIN projects THEN "PROJECT_NOT_FOUND"
  ELSE IF ~isOwner(projects[projectId], userId) THEN "INSUFFICIENT_PERMISSIONS"
  ELSE "OK"

\* mutant: the update replaces the document, so members falls back to its default
updateProject_overwrite(projectId, updateData, userId) ==
  LET code == updateProjectCode(projectId, userId) IN
  /\ projects' = IF code = "OK"
                 THEN [projects EXCEPT ![projectId] =
                         [name |-> field(updateData, "name", @.name),
                          description |-> field(updateData, "description", @.description),
                          owner |-> @.owner,
                          members |-> <<>>,
                          status |-> field(updateData, "status", @.status)]]
                 ELSE projects
  /\ last' = Response("updateProject", userId, projectId, 0, code,
                      IF code = "OK" THEN {projects'[projectId]} ELSE {})
  /\ UNCHANGED <<users, tasks, projectCount, taskCount, inflight, migrations>>

updateProject(projectId, updateData, userId) ==
  LET code == updateProjectCode(projectId, userId) IN
  /\ projects' = IF code = "OK"
                 THEN [projects EXCEPT ![projectId] =
                         [name |-> field(updateData, "name", @.name),
                          description |-> field(updateData, "description", @.description),
                          owner |-> @.owner,
                          members |-> @.members,
                          status |-> field(updateData, "status", @.status)]]
                 ELSE projects
  /\ last' = Response("updateProject", userId, projectId, 0, code,
                      IF code = "OK" THEN {projects'[projectId]} ELSE {})
  /\ UNCHANGED <<users, tasks, projectCount, taskCount, inflight, migrations>>

deleteProjectCode(projectId, userId) ==
  IF projectId \notin DOMAIN projects THEN "PROJECT_NOT_FOUND"
  ELSE IF ~isOwner(projects[projectId], userId) THEN "INSUFFICIENT_PERMISSIONS"
  ELSE "OK"

deleteProject(projectId, userId) ==
  LET code == deleteProjectCode(projectId, userId) IN
  /\ projects' = IF code = "OK"
                 THEN [p \in DOMAIN projects \ {projectId} |-> projects[p]]
                 ELSE projects
  /\ last' = Response("deleteProject", userId, projectId, 0, code, {})
  /\ UNCHANGED <<users, tasks, projectCount, taskCount, inflight, migrations>>

\* mutant: membership is tested before the target user is looked up
addMemberCode_alreadyFirst(projectId, memberUserId, requestUserId) ==
  IF projectId \notin DOMAIN projects THEN "PROJECT_NOT_FOUND"
  ELSE IF ~isOwner(projects[projectId], requestUserId) THEN "INSUFFICIENT_PERMISSIONS"
  ELSE IF isMember(projects[projectId], memberUserId) \/ isOwner(projects[projectId], memberUserId)
       THEN "ALREADY_MEMBER"
  ELSE IF memberUserId \notin DOMAIN users \/ ~users[memberUserId].isActive THEN "INVALID_USER"
  ELSE "OK"

\* mutant: the owner is not treated as already a member
addMemberCode_noOwnerCheck(projectId, memberUserId, requestUserId) ==
  IF projectId \notin DOMAIN projects THEN "PROJECT_NOT_FOUND"
  ELSE IF ~isOwner(projects[projectId], requestUserId) THEN "INSUFFICIENT_PERMISSIONS"
  ELSE IF memberUserId \notin DOMAIN users \/ ~users[memberUserId].isActive THEN "INVALID_USER"
  ELSE IF isMember(projects[projectId], memberUserId) THEN "ALREADY_MEMBER"
  ELSE "OK"

addMemberCode(projectId, memberUserId, requestUserId) ==
  IF projectId \notin DOMAIN projects THEN "PROJECT_NOT_FOUND"
  ELSE IF ~isOwner(projects[projectId], requestUserId) THEN "INSUFFICIENT_PERMISSIONS"
  ELSE IF memberUserId \notin DOMAIN users \/ ~users[memberUserId].isActive THEN "INVALID_USER"
  ELSE IF isMember(projects[projectId], memberUserId) \/ isOwner(projects[projectId], memberUserId)
       THEN "ALREADY_MEMBER"
  ELSE "OK"

addMember(projectId, memberUserId, requestUserId) ==
  LET code == addMemberCode(projectId, memberUserId, requestUserId) IN
  /\ projects' = IF code = "OK"
                 THEN [projects EXCEPT ![projectId].members = addToSet(@, memberUserId)]
                 ELSE projects
  /\ last' = Response("addMember", requestUserId, projectId, memberUserId, code,
                      IF code = "OK" THEN {projects'[projectId]} ELSE {})
  /\ UNCHANGED <<users, tasks, projectCount, taskCount, inflight, migrations>>

\* mutant: the owner check on the target is missing
removeMemberCode_noOwnerCheck(projectId, memberUserId, requestUserId) ==
  IF projectId \notin DOMAIN projects THEN "PROJECT_NOT_FOUND"
  ELSE IF ~isOwner(projects[projectId], requestUserId) /\ requestUserId # memberUserId
       THEN "INSUFFICIENT_PERMISSIONS"
  ELSE IF ~isMember(projects[projectId], memberUserId) THEN "NOT_A_MEMBER"
  ELSE "OK"

\* mutant: only the owner may remove, self-removal included
removeMemberCode_ownerOnly(projectId, memberUserId, requestUserId) ==
  IF projectId \notin DOMAIN projects THEN "PROJECT_NOT_FOUND"
  ELSE IF ~isOwner(projects[projectId], requestUserId) THEN "INSUFFICIENT_PERMISSIONS"
  ELSE IF isOwner(projects[projectId], memberUserId) THEN "CANNOT_REMOVE_OWNER"
  ELSE IF ~isMember(projects[projectId], memberUserId) THEN "NOT_A_MEMBER"
  ELSE "OK"

removeMemberCode(projectId, memberUserId, requestUserId) ==
  IF projectId \notin DOMAIN projects THEN "PROJECT_NOT_FOUND"
  ELSE IF ~isOwner(projects[projectId], requestUserId) /\ requestUserId # memberUserId
       THEN "INSUFFICIENT_PERMISSIONS"
  ELSE IF isOwner(projects[projectId], memberUserId) THEN "CANNOT_REMOVE_OWNER"
  ELSE IF ~isMember(projects[projectId], memberUserId) THEN "NOT_A_MEMBER"
  ELSE "OK"

removeMember(projectId, memberUserId, requestUserId) ==
  LET code == removeMemberCode(projectId, memberUserId, requestUserId) IN
  /\ projects' = IF code = "OK"
                 THEN [projects EXCEPT ![projectId].members = pull(@, memberUserId)]
                 ELSE projects
  /\ last' = Response("removeMember", requestUserId, projectId, memberUserId, code,
                      IF code = "OK" THEN {projects'[projectId]} ELSE {})
  /\ UNCHANGED <<users, tasks, projectCount, taskCount, inflight, migrations>>

\* ------------------------------------------------------------ Task.entity
\* completedAt is absent or a Date; the value of the Date is not modelled.
NoDate == "unset"
SomeDate == "date"

\* mutant: the hook stamps completedAt but never unsets it
preFindOneAndUpdate_noUnset(update, completedAt) ==
  IF "status" \in DOMAIN update /\ update.status = "completed" THEN SomeDate
  ELSE completedAt

\* taskSchema.pre('findOneAndUpdate'): the completedAt the update leaves on
\* the document, given the update body and the stored completedAt
preFindOneAndUpdate(update, completedAt) ==
  IF "status" \in DOMAIN update /\ update.status = "completed" THEN SomeDate
  ELSE IF "status" \in DOMAIN update THEN NoDate
  ELSE completedAt

\* taskSchema.pre('save') on a document whose status is (un)modified
preSave(task, statusModified) ==
  IF statusModified
  THEN IF task.status = "completed" /\ task.completedAt = NoDate
       THEN [task EXCEPT !.completedAt = SomeDate]
       ELSE IF task.status # "completed" THEN [task EXCEPT !.completedAt = NoDate]
       ELSE task
  ELSE task

\* BaseRepository.update = findByIdAndUpdate, which runs pre('findOneAndUpdate')
taskRepositoryUpdate(task, updateData) ==
  [title |-> field(updateData, "title", task.title),
   description |-> field(updateData, "description", task.description),
   projectId |-> task.projectId,
   assignedTo |-> field(updateData, "assignedTo", task.assignedTo),
   status |-> field(updateData, "status", task.status),
   priority |-> field(updateData, "priority", task.priority),
   completedAt |-> preFindOneAndUpdate(updateData, task.completedAt)]

\* TaskRepository.bulkUpdate = Model.updateMany, which runs no
\* findOneAndUpdate middleware: only the fields of `updates` are written
bulkUpdate(task, updates) ==
  [title |-> task.title,
   description |-> task.description,
   projectId |-> task.projectId,
   assignedTo |-> field(updates, "assignedTo", task.assignedTo),
   status |-> field(updates, "status", task.status),
   priority |-> field(updates, "priority", task.priority),
   completedAt |-> task.completedAt]

\* task.projectId.toString() on a task loaded with populate('assignedTo projectId'):
\* the field then holds the Project document, or null when no such project is
\* stored.  null.toString() throws a TypeError; a document's toString() is its
\* inspect() text, which findById cannot cast to an ObjectId (CastError).
populatedProjectIdToString(task) ==
  IF task.projectId \notin DOMAIN projects THEN "TypeError" ELSE "CastError"

\* ------------------------------------------------------------ TaskService
createTaskCode(taskData, userId) ==
  IF ~userHasAccess(taskData.projectId, userId) THEN "PROJECT_ACCESS_DENIED"
  ELSE IF taskData.assignedTo \notin DOMAIN users \/ ~users[taskData.assignedTo].isActive
       THEN "INVALID_ASSIGNED_USER"
  ELSE IF ~userHasAccess(taskData.projectId, taskData.assignedTo) THEN "ASSIGNED_USER_NO_ACCESS"
  ELSE "OK"

createTask(taskData, userId) ==
  LET code == createTaskCode(taskData, userId)
      newId == taskCount + 1
      newTask == preSave([title |-> taskData.title,
                          description |-> taskData.description,
                          projectId |-> taskData.projectId,
                          assignedTo |-> taskData.assignedTo,
                          status |-> "todo",
                          priority |-> taskData.priority,
                          completedAt |-> NoDate], FALSE)
  IN
  /\ taskCount < NumTasks
  /\ IF code = "OK"
     THEN /\ tasks' = [t \in DOMAIN tasks \cup {newId} |->
                         IF t = newId THEN newTask ELSE tasks[t]]
          /\ taskCount' = newId
          /\ last' = Response("createTask", userId, newId, taskData.assignedTo, code, {newTask})
     ELSE /\ UNCHANGED <<tasks, taskCount>>
          /\ last' = Response("createTask", userId, 0, taskData.assignedTo, code, {})
  /\ UNCHANGED <<users, projects, projectCount, inflight, migrations>>

getTaskByIdCode(taskId, userId) ==
  IF taskId \notin DOMAIN tasks THEN "TASK_NOT_FOUND"
  ELSE IF populatedProjectIdToString(tasks[taskId]) \in {"TypeError", "CastError"}
       THEN "TASK_FETCH_ERROR"
  ELSE IF ~userHasAccess(tasks[taskId].projectId, userId) THEN "TASK_ACCESS_DENIED"
  ELSE "OK"

getTaskById(taskId, userId) ==
  LET code == getTaskByIdCode(taskId, userId) IN
  /\ last' = Response("getTaskById", userId, taskId, 0, code,
                      IF code = "OK" THEN {tasks[taskId]} ELSE {})
  /\ UNCHANGED <<users, projects, tasks, projectCount, taskCount, inflight, migrations>>

\* mutant: the stored assignee is validated on every update
updateTaskCode_storedAssignee(taskId, updateData, userId) ==
  IF taskId \notin DOMAIN tasks THEN "TASK_NOT_FOUND"
  ELSE IF ~userHasAccess(tasks[taskId].projectId, userId) THEN "TASK_ACCESS_DENIED"
  ELSE IF ~userHasAccess(tasks[taskId].projectId, field(updateData, "assignedTo", tasks[taskId].assignedTo))
       THEN "ASSIGNED_USER_NO_ACCESS"
  ELSE "OK"

updateTaskCode(taskId, updateData, userId) ==
  IF taskId \notin DOMAIN tasks THEN "TASK_NOT_FOUND"
  ELSE IF ~userHasAccess(tasks[taskId].projectId, userId) THEN "TASK_ACCESS_DENIED"
  ELSE IF "assignedTo" \notin DOMAIN updateData THEN "OK"
  ELSE IF updateData.assignedTo \notin DOMAIN users \/ ~users[updateData.assignedTo].isActive
       THEN "INVALID_ASSIGNED_USER"
  ELSE IF ~userHasAccess(tasks[taskId].projectId, updateData.assignedTo)
       THEN "ASSIGNED_USER_NO_ACCESS"
  ELSE "OK"

updateTask(taskId, updateData, userId) ==
  LET code == updateTaskCode(taskId, updateData, userId) IN
  /\ tasks' = IF code = "OK"
              THEN [tasks EXCEPT ![taskId] = taskRepositoryUpdate(@, updateData)]
              ELSE tasks
  /\ last' = Response("updateTask", userId, taskId, 0, code,
                      IF code = "OK" THEN {tasks'[taskId]} ELSE {})
  /\ UNCHANGED <<users, projects, projectCount, taskCount, inflight, migrations>>

deleteTaskCode(taskId, userId) ==
  IF taskId \notin DOMAIN tasks THEN "TASK_NOT_FOUND"
  ELSE IF ~userHasAccess(tasks[taskId].projectId, userId) THEN "TASK_ACCESS_DENIED"
  ELSE "OK"

deleteTask(taskId, userId) ==
  LET code == deleteTaskCode(taskId, userId) IN
  /\ tasks' = IF code = "OK"
              THEN [t \in DOMAIN tasks \ {taskId} |-> tasks[t]]
              ELSE tasks
  /\ last' = Response("deleteTask", userId, taskId, 0, code, {})
  /\ UNCHANGED <<users, projects, projectCount, taskCount, inflight, migrations>>

\* taskRepository.findAll({ _id: { $in: taskIds } })
findTasksIn(taskIds) == {t \in DOMAIN tasks : t \in Range(taskIds)}

\* mutant: the access loop stops at the first task the caller may touch
bulkUpdateTasksCode_anyAccess(bulkData, userId) ==
  IF Cardinality(findTasksIn(bulkData.taskIds)) # Len(bulkData.taskIds) THEN "TASKS_NOT_FOUND"
  ELSE IF \A t \in findTasksIn(bulkData.taskIds) : ~userHasAccess(tasks[t].projectId, userId)
       THEN "TASKS_ACCESS_DENIED"
  ELSE "OK"

bulkUpdateTasksCode(bulkData, userId) ==
  IF Cardinality(findTasksIn(bulkData.taskIds)) # Len(bulkData.taskIds) THEN "TASKS_NOT_FOUND"
  ELSE IF \E t \in findTasksIn(bulkData.taskIds) : ~userHasAccess(tasks[t].projectId, userId)
       THEN "TASKS_ACCESS_DENIED"
  ELSE "OK"

bulkUpdateTasks(bulkData, userId) ==
  LET code == bulkUpdateTasksCode(bulkData, userId) IN
  /\ tasks' = IF code = "OK"
              THEN [t \in DOMAIN tasks |->
                      IF t \in Range(bulkData.taskIds)
                      THEN bulkUpdate(tasks[t], bulkData.updates)
                      ELSE tasks[t]]
              ELSE tasks
  /\ last' = BulkResponse("bulkUpdateTasks", userId, bulkData.taskIds, code)
  /\ UNCHANGED <<users, projects, projectCount, taskCount, inflight, migrations>>

\* ------------------------------------------------------- request inputs
\* CreateProjectSchema bodies: members is an optional array of id strings
CreateProjectBodies ==
  {[name |-> "name1", description |-> "desc1", members |-> m] :
     m \in SeqsUpTo(UserIds \cup {GhostUser}, MaxMembers)}

\* UpdateProjectSchema bodies (strict: name, description, status, each optional)
UpdateProjectBodies ==
  {[name |-> "name2"], [description |-> "desc2", status |-> "paused"], <<>>}

\* -------------------------------------------------------------------- Spec
\* The services as called by an authenticated user: the authenticate
\* middleware runs first on every route, so the caller is a stored user whose
\* isActive is true.  The project routes' requireProjectMember runs between
\* the two and only refuses calls; it is not part of these steps.
authenticate(userId) == userId \in DOMAIN users /\ users[userId].isActive

Callers == {u \in DOMAIN users : authenticate(u)}

createProjectStep == \E d \in CreateProjectBodies, u \in Callers : createProject(d, u)
getProjectByIdStep == \E p \in ProjectIds, u \in Callers : getProjectById(p, u)
updateProjectStep ==
  \E p \in ProjectIds, d \in UpdateProjectBodies, u \in Callers : updateProject(p, d, u)
deleteProjectStep == \E p \in ProjectIds, u \in Callers : deleteProject(p, u)
addMemberStep ==
  \E p \in ProjectIds, m \in UserIds \cup {GhostUser}, u \in Callers : addMember(p, m, u)
removeMemberStep ==
  \E p \in ProjectIds, m \in UserIds \cup {GhostUser}, u \in Callers : removeMember(p, m, u)
deactivateStep == \E u \in Callers : updateProfile(u, [isActive |-> FALSE])

Next ==
  \/ createProjectStep
  \/ getProjectByIdStep
  \/ updateProjectStep
  \/ deleteProjectStep
  \/ addMemberStep
  \/ removeMemberStep
  \/ deactivateStep

Spec == Init /\ [][Next]_vars

\* ---------------------------------------------------------------- SpecTask
\* Task operations, started in a database that already holds projects: project
\* p was created by user ((p - 1) % NumUsers) + 1 with no member or with one
\* other user as its member.
seedOwner(p) == ((p - 1) % NumUsers) + 1

TaskInit ==
  /\ users = [u \in UserIds |->
                [email |-> u, role |-> IF u = AdminId THEN "admin" ELSE "user", isActive |-> TRUE]]
  /\ \E m \in [1..NumSeedProjects -> SeqsUpTo(UserIds, 1)] :
       /\ \A p \in 1..NumSeedProjects : seedOwner(p) \notin Range(m[p])
       /\ projects = [p \in 1..NumSeedProjects |->
                        [name |-> "name1", description |-> "desc1", owner |-> seedOwner(p),
                         members |-> m[p], status |-> "active"]]
  /\ tasks = <<>>
  /\ projectCount = NumSeedProjects
  /\ taskCount = 0
  /\ last = Response("init", 0, 0, 0, "OK", {})
  /\ inflight = <<>>
  /\ migrations = {}

TaskStatuses == {"todo", "in_progress", "completed"}

\* CreateTaskSchema bodies
CreateTaskBodies ==
  {[title |-> "title1", description |-> "desc1", projectId |-> p, assignedTo |-> a,
    priority |-> "medium"] :
     p \in 1..(NumSeedProjects + 1), a \in UserIds \cup {GhostUser}}

\* UpdateTaskSchema bodies (strict; every field optional)
UpdateTaskBodies == {[status |-> st] : st \in TaskStatuses}

\* BulkUpdateTasksSchema bodies: at least one task id; updates may set status, priority, assignedTo
BulkUpdateBodies ==
  {[taskIds |-> ids, updates |-> u] :
     ids \in SeqsUpTo(TaskIds, MaxBulk) \ {<<>>},
     u \in {[status |-> "completed"], [status |-> "todo"]}}

createTaskStep == \E d \in CreateTaskBodies, u \in Callers : createTask(d, u)
getTaskByIdStep == \E t \in TaskIds, u \in Callers : getTaskById(t, u)
updateTaskStep == \E t \in TaskIds, d \in UpdateTaskBodies, u \in Callers : updateTask(t, d, u)
deleteTaskStep == \E t \in TaskIds, u \in Callers : deleteTask(t, u)
bulkUpdateTasksStep == \E d \in BulkUpdateBodies, u \in Callers : bulkUpdateTasks(d, u)

TaskNext ==
  \/ createTaskStep
  \/ getTaskByIdStep
  \/ updateTaskStep
  \/ deleteTaskStep
  \/ bulkUpdateTasksStep

SpecTask == TaskInit /\ [][TaskNext]_vars

\* ------------------------------------------------------------------ claims
\* The project the last call named, when it is stored
lastProjectExists == last.id \in DOMAIN projects

C3_OwnerOnlyMutation ==
  [][(/\ last'.op \in {"updateProject", "deleteProject", "addMember"}
      /\ last'.id \in DOMAIN projects
      /\ last'.actor # projects[last'.id].owner)
     => (/\ last'.code = "INSUFFICIENT_PERMISSIONS"
         /\ last'.data = {}
         /\ projects' = projects)]_vars

\* the admin, a member but not the owner, is refused deleteProject
C3_Witness ==
  /\ last.op = "deleteProject" /\ lastProjectExists
  /\ users[last.actor].role = "admin"
  /\ last.actor # projects[last.id].owner
  /\ last.actor \in Range(projects[last.id].members)
  /\ last.code = "INSUFFICIENT_PERMISSIONS"

C5_SelfRemoval ==
  [][\A p \in DOMAIN projects : \A b \in Range(projects[p].members) :
       (/\ b # projects[p].owner
        /\ last'.op = "removeMember" /\ last'.id = p
        /\ last'.target = b /\ last'.actor = b)
       => (/\ last'.code = "OK"
           /\ p \in DOMAIN projects'
           /\ b \notin Range(projects'[p].members)
           /\ Range(projects'[p].members) = Range(projects[p].members) \ {b}
           /\ Len(projects'[p].members) = Len(projects[p].members) - 1
           /\ projects'[p].owner = projects[p].owner
           /\ getProjectByIdCode(p, b)' = "PROJECT_ACCESS_DENIED")]_vars

\* a member removed itself and another member is still there
C5_Witness ==
  /\ last.op = "removeMember" /\ lastProjectExists /\ last.code = "OK"
  /\ last.actor = last.target
  /\ last.actor # projects[last.id].owner
  /\ projects[last.id].members # <<>>

\* C6 (as stated): addMember by the owner returns ALREADY_MEMBER whenever the
\* target is the owner or a member, whatever its isActive flag, and
\* INVALID_USER whenever the target does not exist or is inactive.
C6_AddMemberCodesAsStated ==
  [][(/\ last'.op = "addMember"
      /\ last'.id \in DOMAIN projects
      /\ last'.actor = projects[last'.id].owner)
     => LET p == projects[last'.id]
            t == last'.target
        IN /\ (t = p.owner \/ t \in Range(p.members)) => last'.code = "ALREADY_MEMBER"
           /\ (t \notin DOMAIN users \/ ~users[t].isActive) => last'.code = "INVALID_USER"]_vars

\* C6 (amended): addMember by the owner returns INVALID_USER whenever the
\* target does not exist or is inactive (member or not), and ALREADY_MEMBER
\* whenever the target exists, is active and is the owner or a member; in
\* both cases members is unchanged.
C6_AddMemberCodes ==
  [][(/\ last'.op = "addMember"
      /\ last'.id \in DOMAIN projects
      /\ last'.actor = projects[last'.id].owner)
     => LET p == projects[last'.id]
            t == last'.target
            invalid == t \notin DOMAIN users \/ ~users[t].isActive
            already == t = p.owner \/ t \in Range(p.members)
        IN /\ invalid => (last'.code = "INVALID_USER" /\ projects' = projects)
           /\ (~invalid /\ already) => (last'.code = "ALREADY_MEMBER" /\ projects' = projects)]_vars

\* the owner re-adds a member that has been deactivated since it joined
C6_Witness ==
  /\ last.op = "addMember" /\ lastProjectExists
  /\ last.actor = projects[last.id].owner
  /\ last.target \in Range(projects[last.id].members)
  /\ ~users[last.target].isActive
  /\ last.code = "INVALID_USER"

\* C7: no stored project lists its owner among its members.
C7_OwnerNotInMembers ==
  \A p \in DOMAIN projects : projects[p].owner \notin Range(projects[p].members)

\* C8: addMember and removeMember keep owner \notin members: a project that
\* satisfies it before the call still exists and satisfies it after the call.
C8_MemberOpsPreserveOwnerNotMember ==
  [][last'.op \in {"addMember", "removeMember"}
     => \A p \in DOMAIN projects :
          projects[p].owner \notin Range(projects[p].members)
          => (/\ p \in DOMAIN projects'
              /\ projects'[p].owner \notin Range(projects'[p].members))]_vars

\* the owner asked to add the owner to a project that does not list it
C8_Witness ==
  /\ last.op = "addMember" /\ lastProjectExists
  /\ last.target = projects[last.id].owner
  /\ last.actor = last.target
  /\ last.code = "ALREADY_MEMBER"
  /\ projects[last.id].owner \notin Range(projects[last.id].members)
\* whether user u is the owner or a member of the stored project p
hasProjectAccess(u, p) ==
  p \in DOMAIN projects /\ (u = projects[p].owner \/ u \in Range(projects[p].members))

\* C2: getTaskById, updateTask and deleteTask on an existing task, called by
\* a user who is neither owner nor member of the task's project, return
\* TASK_ACCESS_DENIED with no task data and leave the Task collection as it was.
C2_NonMemberTaskDenied ==
  [][(/\ last'.op \in {"getTaskById", "updateTask", "deleteTask"}
      /\ last'.id \in DOMAIN tasks
      /\ tasks[last'.id].projectId \in DOMAIN projects
      /\ ~hasProjectAccess(last'.actor, tasks[last'.id].projectId))
     => (/\ last'.code = "TASK_ACCESS_DENIED"
         /\ last'.data = {}
         /\ tasks' = tasks)]_vars

\* C9: every stored task has completedAt set exactly when its status is completed.
C9_CompletedAtIffCompleted ==
  \A t \in DOMAIN tasks : (tasks[t].completedAt # NoDate) <=> (tasks[t].status = "completed")

\* C10: bulkUpdateTasks is all-or-nothing: when some id names no stored task
\* the call returns TASKS_NOT_FOUND, when the caller lacks access to the
\* project of some named task it returns TASKS_NOT_FOUND or
\* TASKS_ACCESS_DENIED, and in both cases no task is modified.
C10_BulkAllOrNothing ==
  [][last'.op = "bulkUpdateTasks"
     => LET ids == Range(last'.ids)
            missing == \E t \in ids : t \notin DOMAIN tasks
            denied == \E t \in ids :
                        t \in DOMAIN tasks /\ ~hasProjectAccess(last'.actor, tasks[t].projectId)
        IN /\ missing => last'.code = "TASKS_NOT_FOUND"
           /\ denied => last'.code \in {"TASKS_NOT_FOUND", "TASKS_ACCESS_DENIED"}
           /\ (missing \/ denied) => tasks' = tasks]_vars

\* a bulk call naming one task the caller may touch and one it may not was refused
C10_Witness ==
  /\ last.op = "bulkUpdateTasks" /\ last.code = "TASKS_ACCESS_DENIED"
  /\ \E t \in Range(last.ids) : hasProjectAccess(last.actor, tasks[t].projectId)
  /\ \E t \in Range(last.ids) : ~hasProjectAccess(last.actor, tasks[t].projectId)
\* -------------------------------------------------------------- SpecAssign
\* Task creation and reassignment on the seeded projects.
ReassignBodies == {[assignedTo |-> a] : a \in UserIds \cup {GhostUser}}

BulkReassignBodies ==
  {[taskIds |-> ids, updates |-> u] :
     ids \in SeqsUpTo(TaskIds, MaxBulk) \ {<<>>}, u \in ReassignBodies}

reassignTaskStep == \E t \in TaskIds, d \in ReassignBodies, u \in Callers : updateTask(t, d, u)
bulkReassignStep == \E d \in BulkReassignBodies, u \in Callers : bulkUpdateTasks(d, u)

AssignNext ==
  \/ createTaskStep
  \/ reassignTaskStep
  \/ bulkReassignStep

SpecAssign == TaskInit /\ [][AssignNext]_vars

\* C11: every step that creates a task or changes a task's assignedTo leaves
\* an assignee who is the owner or a member of that task's project.
C11_AssigneeHasAccess ==
  [][\A t \in DOMAIN tasks' :
       (t \notin DOMAIN tasks \/ tasks'[t].assignedTo # tasks[t].assignedTo)
       => hasProjectAccess(tasks'[t].assignedTo, tasks'[t].projectId)]_vars
\* C12: createProject answers INVALID_MEMBERS and stores nothing exactly when
\* some proposed member id names no stored active user; otherwise it stores
\* exactly one new project, owned by the caller, whose members are the
\* proposed ones.
C12_CreateProjectMembers ==
  [][last'.op = "createProject"
     => LET m == last'.ids
            invalid == \E i \in 1..Len(m) : m[i] \notin DOMAIN users \/ ~users[m[i]].isActive
        IN /\ invalid => (last'.code = "INVALID_MEMBERS" /\ projects' = projects)
           /\ ~invalid =>
                /\ last'.code = "OK"
                /\ DOMAIN projects' = DOMAIN projects \cup {last'.id}
                /\ last'.id \notin DOMAIN projects
                /\ \A p \in DOMAIN projects : projects'[p] = projects[p]
                /\ projects'[last'.id].owner = last'.actor
                /\ Range(projects'[last'.id].members) = Range(m)]_vars
\* ------------------------------------------- UserService: authentication
\* bcrypt.hash / bcrypt.compare: the stored value is never the plain password
bcryptHash(password) == NumPasswords + password

comparePassword(user, candidatePassword) == bcryptHash(candidatePassword) = user.password

\* lastLogin is absent (NeverLoggedIn) or a Date, counted in ticks
MaxTime == 2
NeverLoggedIn == 0
Times == 1..MaxTime

\* new Date(): not earlier than any Date stored before
newDate == {t \in Times : \A u \in DOMAIN users : users[u].lastLogin <= t}

\* userSchema.statics.updateLastLogin / UserRepository.updateLastLogin
updateLastLogin(userId, t) == [users EXCEPT ![userId].lastLogin = t]

\* jwt.sign with the access secret / with the refresh secret
generateToken(userId) == [kind |-> "access", userId |-> userId, expired |-> FALSE]

generateRefreshToken(userId) == [kind |-> "refresh", userId |-> userId, expired |-> FALSE]

\* jwt.verify(token, refreshSecret): the signature is the refresh secret's and
\* the token has not expired
verifyRefreshToken(token) == token.kind = "refresh" /\ ~token.expired

\* mutant: the query compares the spelling as given
findByEmail_caseSensitive(email) ==
  IF \E u \in DOMAIN users : users[u].email = email
  THEN CHOOSE u \in DOMAIN users : users[u].email = email
  ELSE 0

\* UserRepository.findByEmail / findByEmailWithPassword: 0 when no user holds it
findByEmail(email) ==
  IF \E u \in DOMAIN users : users[u].email = lowercase(email)
  THEN CHOOSE u \in DOMAIN users : users[u].email = lowercase(email)
  ELSE 0

registerCode(userData) == IF findByEmail(userData.email) # 0 THEN "USER_EXISTS" ELSE "OK"

register(userData) ==
  LET code == registerCode(userData)
      newId == Len(users) + 1
      newUser == [email |-> lowercase(userData.email), role |-> "user", isActive |-> TRUE,
                  password |-> bcryptHash(userData.password), lastLogin |-> NeverLoggedIn]
  IN
  /\ Len(users) < MaxRegistered
  /\ IF code = "OK"
     THEN /\ users' = Append(users, newUser)
          /\ last' = Response("register", 0, newId, userData.email, code,
                              {[user |-> newId, accessToken |-> generateToken(newId),
                                refreshToken |-> generateRefreshToken(newId)]})
     ELSE /\ users' = users
          /\ last' = Response("register", 0, 0, userData.email, code, {})
  /\ UNCHANGED <<projects, tasks, projectCount, taskCount, inflight, migrations>>
loginCode(loginData) ==
  LET u == findByEmail(loginData.email) IN
  IF u = 0 THEN "INVALID_CREDENTIALS"
  ELSE IF ~users[u].isActive THEN "USER_INACTIVE"
  ELSE IF ~comparePassword(users[u], loginData.password) THEN "INVALID_CREDENTIALS"
  ELSE "OK"

\* the message of the failure, which AuthController.login sends to the client
loginMessage(code) ==
  CASE code = "INVALID_CREDENTIALS" -> "Invalid credentials"
    [] code = "USER_INACTIVE" -> "Account is deactivated"
    [] OTHER -> "Login successful"

login(loginData) ==
  LET code == loginCode(loginData)
      u == findByEmail(loginData.email)
  IN
  /\ \E t \in newDate : users' = IF code = "OK" THEN updateLastLogin(u, t) ELSE users
  /\ last' = Response("login", 0, u, loginData.email, code,
                      IF code = "OK"
                      THEN {[user |-> u, accessToken |-> generateToken(u),
                             refreshToken |-> generateRefreshToken(u)]}
                      ELSE {})
  /\ UNCHANGED <<projects, tasks, projectCount, taskCount, inflight, migrations>>

\* mutant: the subject is looked up but its isActive flag is not read
refreshTokenCode_noActiveCheck(refreshToken) ==
  IF ~verifyRefreshToken(refreshToken) THEN "INVALID_REFRESH_TOKEN"
  ELSE IF refreshToken.userId \notin DOMAIN users THEN "INVALID_REFRESH_TOKEN"
  ELSE "OK"

refreshTokenCode(refreshToken) ==
  IF ~verifyRefreshToken(refreshToken) THEN "INVALID_REFRESH_TOKEN"
  ELSE IF refreshToken.userId \notin DOMAIN users \/ ~users[refreshToken.userId].isActive
       THEN "INVALID_REFRESH_TOKEN"
  ELSE "OK"

\* last.data of a refreshToken call holds the token presented and, on
\* success, the response body
refreshTokenCall(refreshToken) ==
  LET code == refreshTokenCode(refreshToken) IN
  /\ last' = Response("refreshToken", 0, refreshToken.userId, 0, code,
                      IF code = "OK"
                      THEN {[presented |-> refreshToken,
                             body |-> [accessToken |-> generateToken(refreshToken.userId)]]}
                      ELSE {[presented |-> refreshToken, body |-> <<>>]})
  /\ UNCHANGED <<users, projects, tasks, projectCount, taskCount, inflight, migrations>>

\* ---------------------------------------------------------------- SpecUser
\* Registration, profile update and authentication, from an empty User
\* collection.
UserInit ==
  /\ users = <<>>
  /\ projects = <<>>
  /\ tasks = <<>>
  /\ projectCount = 0
  /\ taskCount = 0
  /\ last = Response("init", 0, 0, 0, "OK", {})
  /\ inflight = <<>>
  /\ migrations = {}

Emails == 1..NumEmails
RequestEmails == Emails \cup {-e : e \in Emails}
Passwords == 1..NumPasswords

\* UserRegistrationSchema bodies
RegisterBodies == {[email |-> e, password |-> pw] : e \in RequestEmails, pw \in Passwords}

\* UserLoginSchema bodies
LoginBodies == {[email |-> e, password |-> pw] : e \in RequestEmails, pw \in Passwords}

\* UserUpdateSchema bodies (strict; name and avatar are not modelled)
UserUpdateBodies ==
  {[email |-> e] : e \in RequestEmails} \cup {[isActive |-> b] : b \in BOOLEAN}

\* tokens a client can present: issued to a registered or not (any longer)
\* stored user, as access or refresh token, expired or not, or forged
PresentedTokens ==
  {[kind |-> k, userId |-> u, expired |-> x] :
     k \in {"access", "refresh", "forged"}, u \in 1..(MaxRegistered + 1), x \in BOOLEAN}

registerStep == \E d \in RegisterBodies : register(d)
loginStep == \E d \in LoginBodies : login(d)
refreshTokenStep == \E t \in PresentedTokens : refreshTokenCall(t)
updateProfileStep == \E u \in Callers, d \in UserUpdateBodies : updateProfile(u, d)

UserNext ==
  \/ registerStep
  \/ loginStep
  \/ refreshTokenStep
  \/ updateProfileStep

SpecUser == UserInit /\ [][UserNext]_vars
\* no two stored users hold the same email
emailsUnique == \A u, v \in DOMAIN users : users[u].email = users[v].email => u = v

\* C13: register with an email a stored user holds returns USER_EXISTS and
\* leaves the users unchanged; updateProfile to an email another user holds
\* returns EMAIL_EXISTS and leaves the users unchanged; no two stored users
\* ever share an email.
C13_EmailUnique ==
  /\ []emailsUnique
  /\ [][/\ (last'.op = "register"
            /\ \E u \in DOMAIN users : users[u].email = lowercase(last'.target))
           => (last'.code = "USER_EXISTS" /\ users' = users)
        /\ (last'.op = "updateProfile" /\ last'.target # 0
            /\ \E u \in DOMAIN users : u # last'.actor /\ users[u].email = lowercase(last'.target))
           => (last'.code = "EMAIL_EXISTS" /\ users' = users)]_vars

\* a second registration under another spelling of a held address was refused
C13_Witness ==
  /\ last.op = "register" /\ last.code = "USER_EXISTS"
  /\ last.target < 0
  /\ \E u \in DOMAIN users : users[u].email = -last.target

\* C14: every failed login has the same code and message, whatever its cause.
C14_LoginFailuresAlike ==
  (last.op = "login" /\ last.code # "OK")
  => (last.code = "INVALID_CREDENTIALS" /\ loginMessage(last.code) = "Invalid credentials")

\* the token a refreshToken call presented, and the body it answered
lastRefresh == CHOOSE d \in last.data : TRUE

\* C15: refreshToken succeeds exactly when the token is an unexpired refresh
\* token whose subject is a stored active user; a success carries a new access
\* token for that subject and nothing else; every failure is
\* INVALID_REFRESH_TOKEN; the stored state is never changed.
C15_RefreshToken ==
  [][last'.op = "refreshToken"
     => LET tok == lastRefresh'.presented
            body == lastRefresh'.body
            good == /\ tok.kind = "refresh" /\ ~tok.expired
                    /\ tok.userId \in DOMAIN users /\ users[tok.userId].isActive
        IN /\ (last'.code = "OK") <=> good
           /\ last'.code = "OK" => (/\ DOMAIN body = {"accessToken"}
                                    /\ body.accessToken.kind = "access"
                                    /\ body.accessToken.userId = tok.userId)
           /\ last'.code # "OK" => (last'.code = "INVALID_REFRESH_TOKEN" /\ body = <<>>)
           /\ UNCHANGED <<users, projects, tasks>>]_vars

\* an unexpired refresh token of a user deactivated since was refused
C15_Witness ==
  /\ last.op = "refreshToken" /\ last.code = "INVALID_REFRESH_TOKEN"
  /\ lastRefresh.presented.kind = "refresh" /\ ~lastRefresh.presented.expired
  /\ lastRefresh.presented.userId \in DOMAIN users
  /\ ~users[lastRefresh.presented.userId].isActive
\* ------------------------------------------------------------ controllers
\* The HTTP status each controller method sends for the result of its service
\* call (ProjectController, TaskController, AuthController).
httpStatus(op, code) ==
  IF code = "OK"
  THEN (IF op \in {"createProject", "createTask", "register"} THEN 201 ELSE 200)
  ELSE CASE op \in {"createProject", "register"} -> 400
         [] op = "getProjectById" -> IF code = "PROJECT_NOT_FOUND" THEN 404 ELSE 403
         [] op \in {"updateProject", "deleteProject", "addMember", "removeMember"} ->
              IF code = "PROJECT_NOT_FOUND" THEN 404
              ELSE IF code = "INSUFFICIENT_PERMISSIONS" THEN 403 ELSE 400
         [] op = "createTask" -> IF code = "PROJECT_ACCESS_DENIED" THEN 403 ELSE 400
         [] op = "getTaskById" -> IF code = "TASK_NOT_FOUND" THEN 404 ELSE 403
         [] op \in {"updateTask", "deleteTask"} ->
              IF code = "TASK_NOT_FOUND" THEN 404
              ELSE IF code = "TASK_ACCESS_DENIED" THEN 403 ELSE 400
         [] op = "bulkUpdateTasks" ->
              IF code = "TASKS_NOT_FOUND" THEN 404
              ELSE IF code = "TASKS_ACCESS_DENIED" THEN 403 ELSE 400
         [] op \in {"login", "refreshToken"} -> 401
         [] op = "updateProfile" -> IF code = "USER_NOT_FOUND" THEN 404 ELSE 400
         [] OTHER -> 500

\* the status the mapping table of the contract gives a failure code
tableStatus(code) ==
  IF code \in {"PROJECT_NOT_FOUND", "TASK_NOT_FOUND", "TASKS_NOT_FOUND", "USER_NOT_FOUND"}
  THEN 404
  ELSE IF code \in {"PROJECT_ACCESS_DENIED", "TASK_ACCESS_DENIED", "TASKS_ACCESS_DENIED",
                    "INSUFFICIENT_PERMISSIONS"}
  THEN 403
  ELSE IF code \in {"PROJECT_FETCH_ERROR", "TASK_FETCH_ERROR"} THEN 500
  ELSE 400

\* C16: the status sent for a failed call is the one the mapping table gives
\* its code: 404 for *_NOT_FOUND, 403 for *_ACCESS_DENIED and
\* INSUFFICIENT_PERMISSIONS, 500 for unexpected failures, 400 otherwise.
C16_StatusFollowsTable ==
  (last.op # "init" /\ last.code # "OK") => httpStatus(last.op, last.code) = tableStatus(last.code)
\* ------------------------------------------------------------- middleware
\* requireProjectMember, which the project routes run before the controller:
\* "next" when the request goes on to the controller, else the error sent
requireProjectMember(projectId, userId) ==
  IF users[userId].role = "admin" THEN "next"
  ELSE IF projectId \notin DOMAIN projects THEN "PROJECT_NOT_FOUND"
  ELSE IF ~isOwner(projects[projectId], userId) /\ ~isMember(projects[projectId], userId)
       THEN "PROJECT_ACCESS_DENIED"
  ELSE "next"

\* C17: an admin who is neither owner nor member of a stored project passes
\* requireProjectMember and getProjectById then succeeds.
C17_AdminReadsAnyProject ==
  (/\ last.op = "getProjectById" /\ lastProjectExists
   /\ users[last.actor].role = "admin")
  => (requireProjectMember(last.id, last.actor) = "next" /\ last.code = "OK")

\* ------------------------------------------------------ TaskService: reads
\* TaskRepository.findByProject / findByUser
findByProject(projectId) == {tasks[t] : t \in {x \in DOMAIN tasks : tasks[x].projectId = projectId}}

findByUser(userId) == {tasks[t] : t \in {x \in DOMAIN tasks : tasks[x].assignedTo = userId}}

getProjectTasksCode(projectId, userId) ==
  IF ~userHasAccess(projectId, userId) THEN "PROJECT_ACCESS_DENIED" ELSE "OK"

getProjectTasks(projectId, userId) ==
  LET code == getProjectTasksCode(projectId, userId) IN
  /\ last' = Response("getProjectTasks", userId, projectId, 0, code,
                      IF code = "OK" THEN findByProject(projectId) ELSE {})
  /\ UNCHANGED <<users, projects, tasks, projectCount, taskCount, inflight, migrations>>

getUserTasks(userId) ==
  /\ last' = Response("getUserTasks", userId, 0, 0, "OK", findByUser(userId))
  /\ UNCHANGED <<users, projects, tasks, projectCount, taskCount, inflight, migrations>>

\* ---------------------------------------------------------------- SpecRead
\* Task reads on the seeded projects while tasks are created and members leave.
getProjectTasksStep ==
  \E p \in 1..(NumSeedProjects + 1), u \in Callers : getProjectTasks(p, u)
getUserTasksStep == \E u \in Callers : getUserTasks(u)

ReadNext ==
  \/ createTaskStep
  \/ removeMemberStep
  \/ getTaskByIdStep
  \/ getProjectTasksStep
  \/ getUserTasksStep

SpecRead == TaskInit /\ [][ReadNext]_vars

\* C18: every task a task read returns to its caller belongs to a project
\* the caller owns or is a member of.
C18_ReadsScopedToProjects ==
  last.op \in {"getTaskById", "getProjectTasks", "getUserTasks"}
  => \A d \in last.data : hasProjectAccess(last.actor, d.projectId)

\* ---------------------------------------------------------------- SpecRace
\* A service method is a chain of awaits: its reads (findById, userHasAccess)
\* finish before its write starts, and other requests run in between.  The
\* checks of a task mutation are one step and its write a later one; a request
\* between the two is held in inflight.
MaxPendingTasks == 1
MaxRaceTasks == 1

SeqRemove(s, i) == [j \in 1..(Len(s) - 1) |-> IF j < i THEN s[j] ELSE s[j + 1]]

Pending(op, actor, id, ids, body) ==
  [op |-> op, actor |-> actor, id |-> id, ids |-> ids, body |-> body]

\* updateTask up to the last check: a failed check answers the request
updateTaskChecks(taskId, updateData, userId) ==
  LET code == updateTaskCode(taskId, updateData, userId) IN
  /\ Len(inflight) < MaxPendingTasks
  /\ IF code = "OK"
     THEN /\ inflight' = Append(inflight, Pending("updateTask", userId, taskId, <<>>, updateData))
          /\ UNCHANGED last
     ELSE /\ last' = Response("updateTask", userId, taskId, 0, code, {})
          /\ UNCHANGED inflight
  /\ UNCHANGED <<users, projects, tasks, projectCount, taskCount, migrations>>

\* mutant: the write is conditional on the caller's access when it runs
updateTaskWrites_recheck(i) ==
  LET r == inflight[i]
      found == r.id \in DOMAIN tasks
      denied == found /\ ~userHasAccess(tasks[r.id].projectId, r.actor)
  IN
  /\ r.op = "updateTask"
  /\ tasks' = IF found /\ ~denied
              THEN [tasks EXCEPT ![r.id] = taskRepositoryUpdate(@, r.body)]
              ELSE tasks
  /\ last' = Response("updateTask", r.actor, r.id, 0,
                      IF denied THEN "TASK_ACCESS_DENIED" ELSE "OK",
                      IF found /\ ~denied THEN {tasks'[r.id]} ELSE {})
  /\ inflight' = SeqRemove(inflight, i)
  /\ UNCHANGED <<users, projects, projectCount, taskCount, migrations>>

\* updateTask from taskRepository.update on: findByIdAndUpdate writes the task
\* that is stored now (none: no write), the task is read again and the
\* request succeeds with what was read
updateTaskWrites(i) ==
  LET r == inflight[i]
      found == r.id \in DOMAIN tasks
  IN
  /\ r.op = "updateTask"
  /\ tasks' = IF found
              THEN [tasks EXCEPT ![r.id] = taskRepositoryUpdate(@, r.body)]
              ELSE tasks
  /\ last' = Response("updateTask", r.actor, r.id, 0, "OK",
                      IF found THEN {tasks'[r.id]} ELSE {})
  /\ inflight' = SeqRemove(inflight, i)
  /\ UNCHANGED <<users, projects, projectCount, taskCount, migrations>>

\* deleteTask up to the access check
deleteTaskChecks(taskId, userId) ==
  LET code == deleteTaskCode(taskId, userId) IN
  /\ Len(inflight) < MaxPendingTasks
  /\ IF code = "OK"
     THEN /\ inflight' = Append(inflight, Pending("deleteTask", userId, taskId, <<>>, <<>>))
          /\ UNCHANGED last
     ELSE /\ last' = Response("deleteTask", userId, taskId, 0, code, {})
          /\ UNCHANGED inflight
  /\ UNCHANGED <<users, projects, tasks, projectCount, taskCount, migrations>>

\* deleteTask from taskRepository.delete on: the result of the delete is not read
deleteTaskWrites(i) ==
  LET r == inflight[i] IN
  /\ r.op = "deleteTask"
  /\ tasks' = [t \in DOMAIN tasks \ {r.id} |-> tasks[t]]
  /\ last' = Response("deleteTask", r.actor, r.id, 0, "OK", {})
  /\ inflight' = SeqRemove(inflight, i)
  /\ UNCHANGED <<users, projects, projectCount, taskCount, migrations>>

\* bulkUpdateTasks up to the end of the access loop
bulkUpdateTasksChecks(bulkData, userId) ==
  LET code == bulkUpdateTasksCode(bulkData, userId) IN
  /\ Len(inflight) < MaxPendingTasks
  /\ IF code = "OK"
     THEN /\ inflight' = Append(inflight, Pending("bulkUpdateTasks", userId, 0,
                                                  bulkData.taskIds, bulkData.updates))
          /\ UNCHANGED last
     ELSE /\ last' = BulkResponse("bulkUpdateTasks", userId, bulkData.taskIds, code)
          /\ UNCHANGED inflight
  /\ UNCHANGED <<users, projects, tasks, projectCount, taskCount, migrations>>

\* bulkUpdateTasks from taskRepository.bulkUpdate on: updateMany over the
\* listed tasks that are stored now
bulkUpdateTasksWrites(i) ==
  LET r == inflight[i] IN
  /\ r.op = "bulkUpdateTasks"
  /\ tasks' = [t \in DOMAIN tasks |->
                 IF t \in Range(r.ids) THEN bulkUpdate(tasks[t], r.body) ELSE tasks[t]]
  /\ last' = BulkResponse("bulkUpdateTasks", r.actor, r.ids, "OK")
  /\ inflight' = SeqRemove(inflight, i)
  /\ UNCHANGED <<users, projects, projectCount, taskCount, migrations>>

RaceUpdateBodies == {[status |-> "completed"]}

RaceBulkBodies ==
  {[taskIds |-> ids, updates |-> [status |-> "in_progress"]] :
     ids \in SeqsUpTo(TaskIds, MaxBulk) \ {<<>>}}

updateTaskChecksStep ==
  \E t \in TaskIds, d \in RaceUpdateBodies, u \in Callers : updateTaskChecks(t, d, u)
updateTaskWritesStep == \E i \in DOMAIN inflight : updateTaskWrites(i)
deleteTaskChecksStep == \E t \in TaskIds, u \in Callers : deleteTaskChecks(t, u)
deleteTaskWritesStep == \E i \in DOMAIN inflight : deleteTaskWrites(i)
bulkUpdateTasksChecksStep == \E d \in RaceBulkBodies, u \in Callers : bulkUpdateTasksChecks(d, u)
bulkUpdateTasksWritesStep == \E i \in DOMAIN inflight : bulkUpdateTasksWrites(i)

\* a user with project access opens a task for themselves; an owner removes a user
createOwnTaskStep ==
  \E p \in DOMAIN projects, u \in Callers :
    taskCount < MaxRaceTasks /\
    createTask([title |-> "title1", description |-> "desc1", projectId |-> p,
                assignedTo |-> u, priority |-> "medium"], u)
ownerRemovesMemberStep ==
  \E p \in DOMAIN projects, m \in UserIds : removeMember(p, m, projects[p].owner)

RaceNext ==
  \/ createOwnTaskStep
  \/ ownerRemovesMemberStep
  \/ updateTaskChecksStep
  \/ updateTaskWritesStep
  \/ deleteTaskChecksStep
  \/ deleteTaskWritesStep
  \/ bulkUpdateTasksChecksStep
  \/ bulkUpdateTasksWritesStep

SpecRace == TaskInit /\ [][RaceNext]_vars

\* C19: a task mutation that passed its access check is written and answered
\* with success whatever the caller's project access is when the write runs:
\* updateTask sets the requested status, deleteTask removes the task and
\* bulkUpdateTasks sets the status of every listed task, also after
\* removeMember has taken the caller out of the project in between.
C19_WriteIgnoresAccess ==
  [][\A i \in DOMAIN inflight :
       (inflight' = SeqRemove(inflight, i)) =>
         LET r == inflight[i] IN
         /\ last'.op = r.op /\ last'.actor = r.actor /\ last'.code = "OK"
         /\ (r.op = "updateTask" /\ r.id \in DOMAIN tasks) =>
              (tasks'[r.id].status = r.body.status /\ last'.data = {tasks'[r.id]})
         /\ r.op = "deleteTask" => r.id \notin DOMAIN tasks'
         /\ r.op = "bulkUpdateTasks" =>
              \A t \in Range(r.ids) \cap DOMAIN tasks : tasks'[t].status = r.body.status]_vars

\* a member's updateTask has just been written and answered with the updated
\* task although the member was removed from the task's project after the
\* access check
C19_Witness ==
  /\ last.op = "updateTask" /\ last.code = "OK"
  /\ last.id \in DOMAIN tasks
  /\ last.data = {tasks[last.id]}
  /\ tasks[last.id].status = "completed"
  /\ last.actor \in DOMAIN users
  /\ ~hasProjectAccess(last.actor, tasks[last.id].projectId)
  /\ tasks[last.id].projectId \in DOMAIN projects

\* -------------------------------------------------------------- SpecMembers
\* addMember and removeMember with their checks and their write as separate
\* steps.  The checks read the project once (findById) and test that document;
\* the request keeps it, and the member id, until its write.
MaxPendingMembers == 2

\* addMember up to the ALREADY_MEMBER check
addMemberChecks(projectId, memberUserId, requestUserId) ==
  LET code == addMemberCode(projectId, memberUserId, requestUserId) IN
  /\ Len(inflight) < MaxPendingMembers
  /\ IF code = "OK"
     THEN /\ inflight' = Append(inflight,
                                Pending("addMember", requestUserId, projectId, <<>>,
                                        [memberUserId |-> memberUserId,
                                         project |-> projects[projectId]]))
          /\ UNCHANGED last
     ELSE /\ last' = Response("addMember", requestUserId, projectId, memberUserId, code, {})
          /\ UNCHANGED inflight
  /\ UNCHANGED <<users, projects, tasks, projectCount, taskCount, migrations>>

\* mutant: the member is pushed onto the document the checks read and that
\* document is saved
projectRepositoryAddMember_save(r) ==
  IF r.id \in DOMAIN projects
  THEN [projects EXCEPT ![r.id].members = Append(r.body.project.members, r.body.memberUserId)]
  ELSE projects

\* ProjectRepository.addMember: findByIdAndUpdate with $addToSet on the stored document
projectRepositoryAddMember(r) ==
  IF r.id \in DOMAIN projects
  THEN [projects EXCEPT ![r.id].members = addToSet(@, r.body.memberUserId)]
  ELSE projects

\* ProjectRepository.removeMember: findByIdAndUpdate with $pull on the stored document
projectRepositoryRemoveMember(r) ==
  IF r.id \in DOMAIN projects
  THEN [projects EXCEPT ![r.id].members = pull(@, r.body.memberUserId)]
  ELSE projects

\* the answer of a membership write: the updated project (null when it is
\* gone); ids records the members the request's checks had read
memberWriteResponse(r) ==
  [Response(r.op, r.actor, r.id, r.body.memberUserId, "OK",
            IF r.id \in DOMAIN projects' THEN {projects'[r.id]} ELSE {})
     EXCEPT !.ids = r.body.project.members]

\* addMember from projectRepository.addMember on
addMemberWrites(i) ==
  LET r == inflight[i] IN
  /\ r.op = "addMember"
  /\ projects' = projectRepositoryAddMember(r)
  /\ last' = memberWriteResponse(r)
  /\ inflight' = SeqRemove(inflight, i)
  /\ UNCHANGED <<users, tasks, projectCount, taskCount, migrations>>

\* removeMember up to the NOT_A_MEMBER check
removeMemberChecks(projectId, memberUserId, requestUserId) ==
  LET code == removeMemberCode(projectId, memberUserId, requestUserId) IN
  /\ Len(inflight) < MaxPendingMembers
  /\ IF code = "OK"
     THEN /\ inflight' = Append(inflight,
                                Pending("removeMember", requestUserId, projectId, <<>>,
                                        [memberUserId |-> memberUserId,
                                         project |-> projects[projectId]]))
          /\ UNCHANGED last
     ELSE /\ last' = Response("removeMember", requestUserId, projectId, memberUserId, code, {})
          /\ UNCHANGED inflight
  /\ UNCHANGED <<users, projects, tasks, projectCount, taskCount, migrations>>

\* removeMember from projectRepository.removeMember on
removeMemberWrites(i) ==
  LET r == inflight[i] IN
  /\ r.op = "removeMember"
  /\ projects' = projectRepositoryRemoveMember(r)
  /\ last' = memberWriteResponse(r)
  /\ inflight' = SeqRemove(inflight, i)
  /\ UNCHANGED <<users, tasks, projectCount, taskCount, migrations>>

addMemberChecksStep ==
  \E p \in DOMAIN projects, m \in UserIds \cup {GhostUser}, u \in Callers :
    addMemberChecks(p, m, u)
addMemberWritesStep == \E i \in DOMAIN inflight : addMemberWrites(i)
removeMemberChecksStep ==
  \E p \in DOMAIN projects, m \in UserIds \cup {GhostUser}, u \in Callers :
    removeMemberChecks(p, m, u)
removeMemberWritesStep == \E i \in DOMAIN inflight : removeMemberWrites(i)

MembersNext ==
  \/ addMemberChecksStep
  \/ addMemberWritesStep
  \/ removeMemberChecksStep
  \/ removeMemberWritesStep

SpecMembers == TaskInit /\ [][MembersNext]_vars

\* how many times userId occurs in members
occurrences(members, userId) == Cardinality({j \in DOMAIN members : members[j] = userId})

\* C20: a membership write changes the stored members of its project by its
\* own member and nothing else, whatever other membership writes ran since its
\* checks: after addMember's write the members are the stored ones plus the
\* new member, who occurs exactly once; after removeMember's write they are the
\* stored ones minus the removed member; every other project is untouched.  So
\* no interleaving of two successful calls loses either change.
C20_MemberWritesNotLost ==
  [][\A i \in DOMAIN inflight :
       (inflight' = SeqRemove(inflight, i) /\ inflight[i].id \in DOMAIN projects) =>
         LET r == inflight[i]
             m == r.body.memberUserId
             before == projects[r.id].members
             after == projects'[r.id].members
         IN
         /\ last'.code = "OK" /\ last'.data = {projects'[r.id]}
         /\ r.op = "addMember" =>
              (Range(after) = Range(before) \cup {m} /\ occurrences(after, m) = 1)
         /\ r.op = "removeMember" => Range(after) = Range(before) \ {m}
         /\ \A q \in DOMAIN projects \ {r.id} : projects'[q] = projects[q]
         /\ DOMAIN projects' = DOMAIN projects]_vars

\* addMember(C) has just been written; its checks had read a project without
\* B, B was added by another call before the write, and both are members now
C20_Witness ==
  /\ last.op = "addMember" /\ last.code = "OK" /\ last.id \in DOMAIN projects
  /\ \E b \in UserIds \ {last.target} :
       /\ b \notin Range(last.ids)
       /\ b \in Range(projects[last.id].members)
  /\ last.target \in Range(projects[last.id].members)
  /\ occurrences(projects[last.id].members, last.target) = 1

\* ---------------------------------------------------------------- SpecAuth
\* Whole requests on the protected user routes: the authenticate middleware,
\* then the route's own middleware and its controller.  A request that
\* authenticate has passed on (next()) is recorded in last with the user it
\* attached to req; the handler of its route is the step that follows.

\* mutant: the subject must be stored, its isActive flag is not read
authenticateCode_noActiveCheck(token) ==
  IF token.kind # "access" THEN "INVALID_TOKEN"
  ELSE IF token.expired THEN "TOKEN_EXPIRED"
  ELSE IF token.userId \notin DOMAIN users THEN "INVALID_USER"
  ELSE "OK"

\* jwt.verify(token, config.jwt.secret) and the lookup of the subject; a token
\* signed with another secret fails before its expiry is looked at
authenticateCode(token) ==
  IF token.kind # "access" THEN "INVALID_TOKEN"
  ELSE IF token.expired THEN "TOKEN_EXPIRED"
  ELSE IF token.userId \notin DOMAIN users \/ ~users[token.userId].isActive THEN "INVALID_USER"
  ELSE "OK"

\* authenticate: a refused request is answered 401; an accepted one has its
\* subject's lastLogin written before next() is called
authenticateMiddleware(token, route) ==
  LET code == authenticateCode(token) IN
  /\ \E t \in newDate :
       users' = IF code = "OK" THEN updateLastLogin(token.userId, t) ELSE users
  /\ last' = Response("authenticate", token.userId, 0, 0, code, {route})
  /\ UNCHANGED <<projects, tasks, projectCount, taskCount, inflight, migrations>>

\* req.user of the request that authenticate has just passed on to route
nextCalled(route) == last.op = "authenticate" /\ last.code = "OK" /\ last.data = {route}

\* userSchema.methods.toSafeObject
toSafeObject(user) == [f \in DOMAIN user \ {"password"} |-> user[f]]

getUserProfileCode(userId) == IF userId \notin DOMAIN users THEN "USER_NOT_FOUND" ELSE "OK"

\* UserService.getUserProfile, as AuthController.getProfile (op) calls it for
\* req.user and UserController.getUserById for the id of the path
getUserProfile(op, actor, userId) ==
  LET code == getUserProfileCode(userId) IN
  /\ last' = Response(op, actor, userId, 0, code,
                      IF code = "OK" THEN {toSafeObject(users[userId])} ELSE {})
  /\ UNCHANGED <<users, projects, tasks, projectCount, taskCount, inflight, migrations>>

\* mutant: only the user's own record passes, the admin's role is not looked at
requireOwnership_selfOnly(role, resourceId, userId) ==
  IF resourceId # userId THEN "ACCESS_DENIED" ELSE "next"

\* requireOwnership('id'): role is req.user.role, the role signed into the
\* token, which is the stored role since no route writes a role
requireOwnership(role, resourceId, userId) ==
  IF role = "admin" THEN "next"
  ELSE IF resourceId # userId THEN "ACCESS_DENIED"
  ELSE "next"

\* GET /users/:id after authenticate: requireOwnership, then getUserById
getUserById(id, userId) ==
  IF requireOwnership(users[userId].role, id, userId) = "next"
  THEN getUserProfile("getUserById", userId, id)
  ELSE /\ last' = Response("getUserById", userId, id, 0, "ACCESS_DENIED", {})
       /\ UNCHANGED <<users, projects, tasks, projectCount, taskCount, inflight, migrations>>

\* mutant: the current password is not compared
changePasswordCode_noCompare(userId, passwordData) ==
  IF userId \notin DOMAIN users THEN "USER_NOT_FOUND"
  ELSE IF findByEmail(users[userId].email) = 0 THEN "USER_NOT_FOUND"
  ELSE "OK"

changePasswordCode(userId, passwordData) ==
  IF userId \notin DOMAIN users THEN "USER_NOT_FOUND"
  ELSE IF findByEmail(users[userId].email) = 0 THEN "USER_NOT_FOUND"
  ELSE IF ~comparePassword(users[findByEmail(users[userId].email)], passwordData.currentPassword)
       THEN "INVALID_PASSWORD"
  ELSE "OK"

\* UserService.changePassword: userRepository.update(userId, { password }) is a
\* findByIdAndUpdate, whose pre('findOneAndUpdate') hook hashes the password.
\* last.data holds the body of the request.
changePassword(userId, passwordData) ==
  LET code == changePasswordCode(userId, passwordData) IN
  /\ users' = IF code = "OK"
              THEN [users EXCEPT ![userId].password = bcryptHash(passwordData.newPassword)]
              ELSE users
  /\ last' = Response("changePassword", userId, userId, 0, code, {passwordData})
  /\ UNCHANGED <<projects, tasks, projectCount, taskCount, inflight, migrations>>

\* The database after UsersSeeder.run, with the admin alone; further users register.
AuthInit ==
  /\ users = <<[email |-> 1, role |-> "admin", isActive |-> TRUE,
                password |-> bcryptHash(1), lastLogin |-> NeverLoggedIn]>>
  /\ projects = <<>>
  /\ tasks = <<>>
  /\ projectCount = 0
  /\ taskCount = 0
  /\ last = Response("init", 0, 0, 0, "OK", {})
  /\ inflight = <<>>
  /\ migrations = {}

Routes == {"getProfile", "updateProfile", "changePassword", "getUserById", "getProjectById"}

\* the tokens register and login have issued, alive or expired, and refresh
\* tokens presented in their place
AccessTokens ==
  {[kind |-> k, userId |-> u, expired |-> x] :
     k \in {"access", "refresh"}, u \in 1..MaxRegistered, x \in BOOLEAN}

\* UserChangePasswordSchema bodies
ChangePasswordBodies ==
  {[currentPassword |-> c, newPassword |-> n] : c \in Passwords, n \in Passwords}

authRegisterStep == \E d \in {[email |-> e, password |-> 1] : e \in Emails} : register(d)
authLoginStep == \E d \in {[email |-> e, password |-> pw] : e \in Emails, pw \in Passwords} : login(d)
authenticateStep == \E t \in AccessTokens, r \in Routes : authenticateMiddleware(t, r)
getProfileStep == nextCalled("getProfile") /\ getUserProfile("getProfile", last.actor, last.actor)
deactivateSelfStep ==
  nextCalled("updateProfile") /\ \E b \in BOOLEAN : updateProfile(last.actor, [isActive |-> b])
changePasswordStep ==
  nextCalled("changePassword") /\ \E d \in ChangePasswordBodies : changePassword(last.actor, d)
getUserByIdStep ==
  nextCalled("getUserById") /\ \E id \in 1..(MaxRegistered + 1) : getUserById(id, last.actor)
authGetProjectByIdStep ==
  nextCalled("getProjectById") /\ \E p \in ProjectIds : getProjectById(p, last.actor)

AuthNext ==
  \/ authRegisterStep
  \/ authLoginStep
  \/ authenticateStep
  \/ \E t \in AccessTokens : refreshTokenCall(t)
  \/ getProfileStep
  \/ deactivateSelfStep
  \/ changePasswordStep
  \/ getUserByIdStep
  \/ authGetProjectByIdStep

SpecAuth == AuthInit /\ [][AuthNext]_vars

\* C21: a step changes the stored users only if it is a registration, a
\* profile update, a password change or a successful login, and a stored
\* user's lastLogin only if it is a successful login of that user.
C21_UsersChangedOnlyByUserWrites ==
  [][/\ users' # users =>
          \/ last'.op \in {"register", "updateProfile", "changePassword"}
          \/ (last'.op = "login" /\ last'.code = "OK")
     /\ \A u \in DOMAIN users :
          users'[u].lastLogin # users[u].lastLogin =>
            (last'.op = "login" /\ last'.code = "OK" /\ last'.id = u)]_vars

\* ---------------------------------------------------------------- SpecHttp
\* POST /tasks as routed: validate({ body: CreateTaskSchema }) replaces
\* req.body by the parsed body, then TaskController.createTask parses req.body
\* with CreateTaskSchema again and calls the service.
\* A dueDate of a body is [type, time]: a JSON string spelling the instant
\* time, a JSON value of another type, or (after a parse) a Date.

\* mutant: dueDate is taken as it comes
CreateTaskSchema_anyDueDate(body, now) == [success |-> TRUE, data |-> body]

\* CreateTaskSchema.parse at instant now: dueDate is z.string(), transformed
\* to a Date and refined by date > new Date()
CreateTaskSchema(body, now) ==
  IF body.dueDate.type # "string" \/ ~(body.dueDate.time > now)
  THEN [success |-> FALSE, data |-> body]
  ELSE [success |-> TRUE, data |-> [body EXCEPT !.dueDate = [type |-> "date", time |-> @.time]]]

\* validate({ body: CreateTaskSchema }): a ZodError goes to errorHandler, which
\* answers 400 VALIDATION_ERROR; last.data holds the body received, the
\* instant of the parse and req.body as it is passed on
validateCreateTask(body, userId, now) ==
  LET parsed == CreateTaskSchema(body, now) IN
  /\ last' = Response("validateCreateTask", userId, 0, 0,
                      IF parsed.success THEN "OK" ELSE "VALIDATION_ERROR",
                      {[received |-> body, now |-> now, body |-> parsed.data]})
  /\ UNCHANGED <<users, projects, tasks, projectCount, taskCount, inflight, migrations>>

\* the request validateCreateTask has just passed on
validatedRequest == CHOOSE d \in last.data : TRUE

\* TaskController.createTask at instant now, not before the middleware's parse
createTaskController(now) ==
  LET parsed == CreateTaskSchema(validatedRequest.body, now) IN
  /\ last.op = "validateCreateTask" /\ last.code = "OK"
  /\ validatedRequest.now <= now
  /\ IF parsed.success
     THEN createTask(parsed.data, last.actor)
     ELSE /\ last' = Response("createTask", last.actor, 0, 0, "VALIDATION_ERROR", {})
          /\ UNCHANGED <<users, projects, tasks, projectCount, taskCount, inflight, migrations>>

\* bodies a client sends
CreateTaskRequestBodies ==
  {[title |-> "title1", description |-> "desc1", projectId |-> p, assignedTo |-> a,
    priority |-> "medium", dueDate |-> [type |-> ty, time |-> t]] :
     p \in 1..NumSeedProjects, a \in UserIds, ty \in {"string", "number"},
     t \in 1..(MaxTime + 1)}

HttpNext ==
  \/ createTaskStep
  \/ \E d \in CreateTaskRequestBodies, u \in Callers, now \in Times : validateCreateTask(d, u, now)
  \/ \E now \in Times : createTaskController(now)

SpecHttp == TaskInit /\ [][HttpNext]_vars

\* C22: a create-task request whose dueDate is not later than the instant it
\* is validated at is answered VALIDATION_ERROR by the validation, which ends
\* the request, and the stored tasks are as they were before it, whoever the
\* caller and the assignee are.
C22_PastDueDateRejected ==
  /\ [](last.op = "validateCreateTask" =>
          LET r == validatedRequest IN
          (r.received.dueDate.time <= r.now) => last.code = "VALIDATION_ERROR")
  /\ [][last'.op = "validateCreateTask" => tasks' = tasks]_vars

\* a member's request with a dueDate equal to the current instant, for a
\* project both caller and assignee may use, was refused while tasks are stored
C22_Witness ==
  /\ last.op = "validateCreateTask" /\ last.code = "VALIDATION_ERROR"
  /\ validatedRequest.received.dueDate.type = "string"
  /\ validatedRequest.received.dueDate.time = validatedRequest.now
  /\ hasProjectAccess(last.actor, validatedRequest.received.projectId)
  /\ hasProjectAccess(validatedRequest.received.assignedTo, validatedRequest.received.projectId)
  /\ DOMAIN tasks # {}

\* C23: in every reachable state, for every stored task of a stored project,
\* every authenticated user with access to that project and every status s2,
\* updateTask with status s2 can be taken, succeeds, leaves the task in s2
\* with every other task as it was, and leaves completedAt set when s2 is
\* completed and absent otherwise, whatever the status of the task was.
C23_AnyStatusToAny ==
  \A t \in DOMAIN tasks : \A u \in Callers : \A s2 \in TaskStatuses :
    hasProjectAccess(u, tasks[t].projectId) =>
      ENABLED (/\ updateTask(t, [status |-> s2], u)
               /\ last'.code = "OK"
               /\ tasks'[t].status = s2
               /\ (tasks'[t].completedAt # NoDate) <=> (s2 = "completed")
               /\ \A o \in DOMAIN tasks \ {t} : tasks'[o] = tasks[o])

\* an updateTask has just put a task into completed and stamped completedAt,
\* and another stored task of a project the caller may use is in_progress
C23_Witness ==
  /\ last.op = "updateTask" /\ last.code = "OK" /\ last.id \in DOMAIN tasks
  /\ tasks[last.id].status = "completed" /\ tasks[last.id].completedAt # NoDate
  /\ \E o \in DOMAIN tasks \ {last.id} :
       /\ tasks[o].status = "in_progress"
       /\ hasProjectAccess(last.actor, tasks[o].projectId)

\* C24: GET /users/:id is let through to the controller exactly when the
\* authenticated actor is the target or an admin; every other actor is
\* answered ACCESS_DENIED without data; a read that is let through returns the
\* stored target without its password, or USER_NOT_FOUND.
C24_UserReadOwnOrAdmin ==
  last.op = "getUserById" =>
    LET allowed == last.actor = last.id \/ users[last.actor].role = "admin" IN
    /\ (last.code = "ACCESS_DENIED") <=> ~allowed
    /\ last.code = "ACCESS_DENIED" => last.data = {}
    /\ (allowed /\ last.id \in DOMAIN users) =>
         (last.code = "OK" /\ last.data = {toSafeObject(users[last.id])}
          /\ \A d \in last.data : "password" \notin DOMAIN d)
    /\ (allowed /\ last.id \notin DOMAIN users) => (last.code = "USER_NOT_FOUND" /\ last.data = {})

\* the admin has read the record of another stored user
C24_Witness ==
  /\ last.op = "getUserById" /\ last.code = "OK"
  /\ users[last.actor].role = "admin"
  /\ last.id # last.actor /\ last.id \in DOMAIN users
  /\ last.data # {}

\* C25: no step changes the owner of a stored project that stays stored, and
\* an updateProject step leaves the members of every project, and every
\* project other than the one it names, as they were.
C25_OwnerImmutable ==
  [][\A p \in DOMAIN projects \cap DOMAIN projects' :
       /\ projects'[p].owner = projects[p].owner
       /\ last'.op = "updateProject" =>
            /\ projects'[p].members = projects[p].members
            /\ p # last'.id => projects'[p] = projects[p]]_vars

\* the owner has just updated a project that has members, and its status changed
C25_Witness ==
  /\ last.op = "updateProject" /\ last.code = "OK" /\ lastProjectExists
  /\ projects[last.id].owner = last.actor
  /\ projects[last.id].members # <<>>
  /\ projects[last.id].status = "paused"

\* the body of the changePassword call in last
lastPasswordData == CHOOSE d \in last.data : TRUE

\* login with the actor's address and the given password, after the call in last
loginAfterChange(password) == loginCode([email |-> users[last.actor].email, password |-> password])

\* C26 (as stated): after a successful changePassword(current, new), login
\* with new succeeds and login with current fails with INVALID_CREDENTIALS.
C26_OldPasswordAlwaysFails ==
  (last.op = "changePassword" /\ last.code = "OK") =>
    /\ loginAfterChange(lastPasswordData.newPassword) = "OK"
    /\ loginAfterChange(lastPasswordData.currentPassword) = "INVALID_CREDENTIALS"

\* C26: a stored password changes only in a successful changePassword of that
\* user whose currentPassword verified; after it login with new succeeds, and
\* login with current fails with INVALID_CREDENTIALS when new differs from
\* current; a changePassword with a wrong currentPassword returns
\* INVALID_PASSWORD and leaves the users unchanged; every stored password is
\* the hash of a password and no password itself.
C26_CredentialReplacedByChangePassword ==
  /\ [](\A u \in DOMAIN users :
          /\ users[u].password \notin Passwords
          /\ \E pw \in Passwords : users[u].password = bcryptHash(pw))
  /\ []((last.op = "changePassword" /\ last.code = "OK") =>
          /\ loginAfterChange(lastPasswordData.newPassword) = "OK"
          /\ lastPasswordData.newPassword # lastPasswordData.currentPassword =>
               loginAfterChange(lastPasswordData.currentPassword) = "INVALID_CREDENTIALS")
  /\ [][/\ \A u \in DOMAIN users :
             users'[u].password # users[u].password =>
               /\ last'.op = "changePassword" /\ last'.code = "OK" /\ last'.actor = u
               /\ comparePassword(users[u], lastPasswordData'.currentPassword)
               /\ users'[u].password = bcryptHash(lastPasswordData'.newPassword)
        /\ (/\ last'.op = "changePassword"
            /\ ~comparePassword(users[last'.actor], lastPasswordData'.currentPassword))
           => (last'.code = "INVALID_PASSWORD" /\ users' = users)]_vars

\* a registered user has replaced the password by a different one
C26_Witness ==
  /\ last.op = "changePassword" /\ last.code = "OK"
  /\ lastPasswordData.newPassword # lastPasswordData.currentPassword
  /\ users[last.actor].role = "user"
  /\ users[last.actor].password = bcryptHash(lastPasswordData.newPassword)

\* -------------------------------------------------------------- SpecOrphan
\* Task operations and removals on the seeded projects: deleteProject deletes
\* the project document only, removeMember writes members only.
OrphanNext ==
  \/ createOwnTaskStep
  \/ \E p \in DOMAIN projects, u \in Callers : deleteProject(p, u)
  \/ ownerRemovesMemberStep
  \/ getTaskByIdStep
  \/ \E t \in TaskIds, d \in RaceUpdateBodies, u \in Callers : updateTask(t, d, u)
  \/ deleteTaskStep
  \/ \E d \in RaceBulkBodies, u \in Callers : bulkUpdateTasks(d, u)

SpecOrphan == TaskInit /\ [][OrphanNext]_vars

\* the stored tasks whose project is not stored
orphans == {t \in DOMAIN tasks : tasks[t].projectId \notin DOMAIN projects}

\* C27: a successful deleteProject leaves every task stored; afterwards
\* getTaskById, updateTask and deleteTask on a task of the deleted project
\* return TASK_ACCESS_DENIED, and bulkUpdateTasks over stored tasks one of
\* which is such a task returns TASKS_ACCESS_DENIED, for every caller, and
\* none of them changes a task.
C27_OrphanTasksDenied ==
  [][/\ last'.op = "deleteProject" => tasks' = tasks
     /\ (last'.op \in {"getTaskById", "updateTask", "deleteTask"} /\ last'.id \in orphans)
        => (last'.code = "TASK_ACCESS_DENIED" /\ tasks' = tasks)
     /\ (/\ last'.op = "bulkUpdateTasks"
         /\ Range(last'.ids) \subseteq DOMAIN tasks
         /\ Cardinality(Range(last'.ids)) = Len(last'.ids)
         /\ Range(last'.ids) \cap orphans # {})
        => (last'.code = "TASKS_ACCESS_DENIED" /\ tasks' = tasks)]_vars

\* C28: a removeMember step changes nothing but the members of the project it
\* names: tasks and users are as before and the project keeps its name,
\* description, owner and status; and an updateTask that sets no assignedTo,
\* called by a user with access on a task whose assignee has no access to the
\* task's project, succeeds and keeps the assignee.
C28_RemoveMemberKeepsAssignments ==
  [][/\ last'.op = "removeMember" =>
          /\ tasks' = tasks /\ users' = users
          /\ DOMAIN projects' = DOMAIN projects
          /\ \A p \in DOMAIN projects :
               /\ p # last'.id => projects'[p] = projects[p]
               /\ [projects'[p] EXCEPT !.members = <<>>] = [projects[p] EXCEPT !.members = <<>>]
     /\ (/\ last'.op = "updateTask" /\ last'.id \in DOMAIN tasks
         /\ hasProjectAccess(last'.actor, tasks[last'.id].projectId)
         /\ ~hasProjectAccess(tasks[last'.id].assignedTo, tasks[last'.id].projectId))
        => (/\ last'.code = "OK"
            /\ tasks'[last'.id].assignedTo = tasks[last'.id].assignedTo
            /\ tasks'[last'.id].status = "completed")]_vars

\* the owner has just completed a task whose assignee was removed from the
\* task's project and is still its assignee
C28_Witness ==
  /\ last.op = "updateTask" /\ last.code = "OK" /\ last.id \in DOMAIN tasks
  /\ tasks[last.id].projectId \in DOMAIN projects
  /\ last.actor = projects[tasks[last.id].projectId].owner
  /\ ~hasProjectAccess(tasks[last.id].assignedTo, tasks[last.id].projectId)
  /\ tasks[last.id].status = "completed"

\* C29: a user whose isActive is false stays so in every step; for such a
\* user an unexpired access token is refused by authenticate with
\* INVALID_USER, an unexpired refresh token by refreshToken with
\* INVALID_REFRESH_TOKEN and login with any password with USER_INACTIVE; and
\* no authenticate, login or refreshToken step for that user succeeds.
C29_DeactivationPermanent ==
  /\ [](\A u \in DOMAIN users : ~users[u].isActive =>
          /\ authenticateCode(generateToken(u)) = "INVALID_USER"
          /\ refreshTokenCode(generateRefreshToken(u)) = "INVALID_REFRESH_TOKEN"
          /\ \A pw \in Passwords :
               loginCode([email |-> users[u].email, password |-> pw]) = "USER_INACTIVE")
  /\ [][\A u \in DOMAIN users : ~users[u].isActive =>
          /\ ~users'[u].isActive
          /\ (last'.op = "authenticate" /\ last'.actor = u) =>
               last'.code \in {"INVALID_USER", "INVALID_TOKEN", "TOKEN_EXPIRED"}
          /\ (last'.op = "login" /\ last'.id = u) => last'.code = "USER_INACTIVE"
          /\ (last'.op = "refreshToken" /\ last'.id = u) =>
               last'.code = "INVALID_REFRESH_TOKEN"]_vars

\* a registered user who set isActive to false through updateProfile has since
\* been refused by authenticate
C29_Witness ==
  /\ last.op = "authenticate" /\ last.code = "INVALID_USER"
  /\ last.actor \in DOMAIN users
  /\ users[last.actor].role = "user"
  /\ ~users[last.actor].isActive

\* ------------------------------------------------------------ migrations
\* MigrationManager over the `migrations` collection.  The command-line
\* script registers the three collection migrations, versions 1..3, before
\* it calls runPending or rollback; up() and down() may throw.
NumMigrations == 3

registered == 1..NumMigrations

Steps == 1..(NumMigrations + 1)

RECURSIVE sortAscending(_)
sortAscending(S) ==
  IF S = {} THEN <<>>
  ELSE LET m == CHOOSE x \in S : \A y \in S : x <= y
       IN <<m>> \o sortAscending(S \ {m})

RECURSIVE sortDescending(_)
sortDescending(S) ==
  IF S = {} THEN <<>>
  ELSE LET m == CHOOSE x \in S : \A y \in S : x >= y
       IN <<m>> \o sortDescending(S \ {m})

slice(s, n) == SubSeq(s, 1, IF n < Len(s) THEN n ELSE Len(s))

\* The loop of runPending: up() and markAsExecuted() on each migration that
\* isExecuted() does not find; a throwing up() leaves the loop at once.
RECURSIVE runPendingLoop(_, _, _, _)
runPendingLoop(todo, executed, ran, failing) ==
  IF todo = <<>> THEN [executed |-> executed, ran |-> ran, code |-> "OK"]
  ELSE LET m == Head(todo) IN
    IF m \in executed THEN runPendingLoop(Tail(todo), executed, ran, failing)
    ELSE IF m \in failing
      THEN [executed |-> executed, ran |-> Append(ran, m), code |-> "MIGRATION_FAILED"]
      ELSE runPendingLoop(Tail(todo), executed \cup {m}, Append(ran, m), failing)

runPending(failing) ==
  LET r == runPendingLoop(sortAscending(registered), migrations, <<>>, failing) IN
  /\ migrations' = r.executed
  /\ last' = [Response("runPending", 0, 0, 0, r.code, failing) EXCEPT !.ids = r.ran]
  /\ UNCHANGED <<users, projects, tasks, projectCount, taskCount, inflight>>

\* The loop of rollback: down() and markAsRolledBack() on each migration of
\* the slice that isExecuted() finds; a throwing down() leaves the loop.
RECURSIVE rollbackLoop(_, _, _, _)
rollbackLoop(todo, executed, ran, failing) ==
  IF todo = <<>> THEN [executed |-> executed, ran |-> ran, code |-> "OK"]
  ELSE LET m == Head(todo) IN
    IF m \notin executed THEN rollbackLoop(Tail(todo), executed, ran, failing)
    ELSE IF m \in failing
      THEN [executed |-> executed, ran |-> Append(ran, m), code |-> "ROLLBACK_FAILED"]
      ELSE rollbackLoop(Tail(todo), executed \ {m}, Append(ran, m), failing)

rollback(steps, failing) ==
  LET sortedMigrations == slice(sortDescending(registered), steps)
      r == rollbackLoop(sortedMigrations, migrations, <<>>, failing)
  IN
  /\ migrations' = r.executed
  /\ last' = [Response("rollback", 0, 0, steps, r.code, failing) EXCEPT !.ids = r.ran]
  /\ UNCHANGED <<users, projects, tasks, projectCount, taskCount, inflight>>

MigrateNext ==
  \/ \E failing \in SUBSET registered : runPending(failing)
  \/ \E steps \in Steps, failing \in SUBSET registered : rollback(steps, failing)

SpecMigrate == Init /\ [][MigrateNext]_vars

\* C30: a rollback(k) that returns normally has run down() on exactly the
\* min(k, number executed) highest-version executed migrations, in descending
\* version order, and has unmarked exactly those; a runPending has run up()
\* in ascending version order on unmarked migrations only, and a migration
\* whose up() failed is the last one run and stays unmarked.
C30_RollbackTakesLatestExecuted ==
  [][/\ (last'.op = "rollback" /\ last'.code = "OK") =>
          LET n == IF last'.target < Cardinality(migrations)
                     THEN last'.target ELSE Cardinality(migrations)
              expected == SubSeq(sortDescending(migrations), 1, n)
          IN /\ last'.ids = expected
             /\ migrations' = migrations \ {expected[i] : i \in 1..n}
     /\ last'.op = "runPending" =>
          LET ran == last'.ids
              ok == IF last'.code = "OK" THEN ran ELSE SubSeq(ran, 1, Len(ran) - 1)
          IN /\ \A i \in 1..Len(ran) : ran[i] \notin migrations
             /\ \A i, j \in 1..Len(ran) : i < j => ran[i] < ran[j]
             /\ migrations' = migrations \cup {ok[i] : i \in 1..Len(ok)}
             /\ last'.code # "OK" => ran[Len(ran)] \notin migrations'
    ]_vars

====
